---- MODULE Spec2Model ----
(***************************************************************************)
(* A model of the MarketDataApp client library                             *)
(* (src/src/market_data_api/MarketDataAPI.py): the Singleton metaclass,    *)
(* the MarketDataAPI client with its rate-limit fields, the Symbol /       *)
(* Stock / Index / Option objects and their public operations, and the     *)
(* classification of a response body.                                      *)
(*                                                                         *)
(* Python values are modelled as follows.  None is the empty tuple and an  *)
(* integer n held in an optional field is <<n>>.  A header value is the    *)
(* sequence of its characters, a header map is a function whose DOMAIN is  *)
(* the set of headers present.  A JSON object is a function from its keys  *)
(* to its values.  The result of a call is a record                        *)
(* [kind, t, v]: kind is "return" or "raise", t the Python type (or the    *)
(* exception class) and v the text of the value.                           *)
(***************************************************************************)
EXTENDS Integers, Sequences, FiniteSets, TLC

VARIABLES
    instances,  \* Singleton._instances[MarketDataAPI]: None or <<heap index>>
    heap,       \* every MarketDataAPI object created so far
    objs,       \* the Symbol objects the caller holds
    last,       \* what the most recent public call did
    pc,         \* concurrent callers: where each thread stands
    loc,        \* concurrent callers: each thread's local variables
    quota       \* concurrent callers: the server's true remaining quota

vars == <<instances, heap, objs, last, pc, loc, quota>>

None == <<>>
Some(x) == <<x>>

-----------------------------------------------------------------------------
(* Bounds of the model *)

MaxObjs == 2        \* Symbol objects the caller constructs
ServerQuota == 2    \* quota of the server's window in the concurrent model

-----------------------------------------------------------------------------
(* Python results *)

Return(t, v) == [kind |-> "return", t |-> t, v |-> v, data |-> <<>>]
Raise(t, v) == [kind |-> "raise", t |-> t, v |-> v, data |-> <<>>]
ReturnStr(s) == Return("str", s)
ReturnNone == Return("NoneType", "None")
\* a list or a DataFrame: `data` holds its content
ReturnData(t, d) == [kind |-> "return", t |-> t, v |-> "", data |-> d]

-----------------------------------------------------------------------------
(* int(text): the builtin applied to a header value *)

Digits == <<"0", "1", "2", "3", "4", "5", "6", "7", "8", "9">>

IsDigit(c) == \E i \in 1..Len(Digits) : Digits[i] = c

DigitVal(c) == (CHOOSE i \in 1..Len(Digits) : Digits[i] = c) - 1

RECURSIVE DigitsValue(_)
DigitsValue(s) ==
    IF s = <<>> THEN 0
    ELSE 10 * DigitsValue(SubSeq(s, 1, Len(s) - 1)) + DigitVal(s[Len(s)])

Unsigned(s) == IF s # <<>> /\ s[1] \in {"-", "+"} THEN Tail(s) ELSE s

IsIntLiteral(s) ==
    /\ Unsigned(s) # <<>>
    /\ \A i \in 1..Len(Unsigned(s)) : IsDigit(Unsigned(s)[i])

PyInt(s) ==
    IF s # <<>> /\ s[1] = "-" THEN 0 - DigitsValue(Unsigned(s))
    ELSE DigitsValue(Unsigned(s))

-----------------------------------------------------------------------------
(* Python values passed as arguments and held in the params dict.          *)
(* [t, s, n]: t the type, s the text of a str, n the number of an int or   *)
(* bool (True is 1) and the date yyyymmdd of a datetime.date.              *)

PyNone == [t |-> "NoneType", s |-> "", n |-> 0]
PyS(s) == [t |-> "str", s |-> s, n |-> 0]
PyI(n) == [t |-> "int", s |-> "", n |-> n]
PyB(b) == [t |-> "bool", s |-> "", n |-> IF b THEN 1 ELSE 0]
PyD(n) == [t |-> "date", s |-> "", n |-> n]

\* bool(value), as `if value:` evaluates it
Truthy(val) ==
    CASE val.t = "NoneType" -> FALSE
      [] val.t = "str" -> val.s # ""
      [] val.t \in {"int", "bool"} -> val.n # 0
      [] OTHER -> TRUE

RECURSIVE NatToStr(_)
NatToStr(n) ==
    IF n < 10 THEN Digits[n + 1]
    ELSE NatToStr(n \div 10) \o Digits[(n % 10) + 1]

IntToStr(n) == IF n < 0 THEN "-" \o NatToStr(0 - n) ELSE NatToStr(n)

RECURSIVE ZeroPad(_, _)
\* '{:0>w}'.format(text): pads on the left, never truncates
ZeroPad(text, w) == IF Len(text) >= w THEN text ELSE ZeroPad("0" \o text, w)

\* date.strftime("%Y-%m-%d")
StrfDate(n) ==
    ZeroPad(NatToStr(n \div 10000), 4) \o "-" \o ZeroPad(NatToStr((n \div 100) % 100), 2)
        \o "-" \o ZeroPad(NatToStr(n % 100), 2)

\* str(value), as urllib.parse.urlencode renders a value (the texts of the
\* model hold unreserved characters only, which quote_plus leaves alone)
PyStr(val) ==
    CASE val.t = "NoneType" -> "None"
      [] val.t = "str" -> val.s
      [] val.t = "int" -> IntToStr(val.n)
      [] val.t = "bool" -> IF val.n = 1 THEN "True" ELSE "False"
      [] val.t = "date" -> StrfDate(val.n)

-----------------------------------------------------------------------------
(* class MarketDataAPI *)

api_urls ==
    [market_status |-> "https://api.marketdata.app/v1/markets/status/",
     stock_candles |-> "https://api.marketdata.app/v1/stocks/candles/",
     stock_quote |-> "https://api.marketdata.app/v1/stocks/quotes/",
     option_expirations |-> "https://api.marketdata.app/v1/options/expirations/",
     option_lookup |-> "https://api.marketdata.app/v1/options/lookup/",
     option_strikes |-> "https://api.marketdata.app/v1/options/strikes/",
     option_chain |-> "https://api.marketdata.app/v1/options/chain/",
     option_quote |-> "https://api.marketdata.app/v1/options/quotes/",
     index_candles |-> "https://api.marketdata.app/v1/indices/candles/",
     index_quote |-> "https://api.marketdata.app/v1/indices/quotes/"]

\* MarketDataAPI.__init__: the object it leaves, for a token it accepts
MarketDataAPI_init(auth_token) ==
    [token |-> auth_token.s,
     limit |-> None, consumed |-> None, remaining |-> None, reset |-> None]

\* `if auth_token: if len(auth_token) > 0:` else `raise "Need authentication token"`
TokenAccepted(auth_token) == Truthy(auth_token) /\ Len(auth_token.s) > 0

\* a __call__ that constructs an instance every time
Singleton_call_Fresh(ins, hp, auth_token) ==
    IF TokenAccepted(auth_token)
    THEN [instances |-> Some(Len(hp) + 1),
          heap |-> Append(hp, MarketDataAPI_init(auth_token)),
          ret |-> Len(hp) + 1]
    ELSE [instances |-> ins, heap |-> hp, ret |-> 0]

\* Singleton.__call__ on the dict `ins` and the objects `hp`:
\* the dict and objects after the call, and the instance returned (0: raised)
Singleton_call(ins, hp, auth_token) ==
    IF ins = None
    THEN IF TokenAccepted(auth_token)
         THEN [instances |-> Some(Len(hp) + 1),
               heap |-> Append(hp, MarketDataAPI_init(auth_token)),
               ret |-> Len(hp) + 1]
         ELSE [instances |-> ins, heap |-> hp, ret |-> 0]
    ELSE [instances |-> ins, heap |-> hp, ret |-> ins[1]]

\* no request was handed to requests.get
NoRequest == [url |-> "", auth |-> ""]

get_header(api) == "token " \o api.token

\* the gate with `>= 0` for `> 0`
GateOpen_NonNegative(api) == api.remaining = None \/ api.remaining[1] >= 0

\* the rate-limit gate of get_data_from_url
GateOpen(api) == api.remaining = None \/ api.remaining[1] > 0

HeaderNames ==
    <<"x-api-ratelimit-limit", "x-api-ratelimit-consumed",
      "x-api-ratelimit-reset", "x-api-ratelimit-remaining">>

\* int(response.headers[name]): "" when it yields a value, else the exception
HeaderExc(headers, name) ==
    IF name \notin DOMAIN headers THEN "KeyError"
    ELSE IF ~IsIntLiteral(headers[name]) THEN "ValueError"
    ELSE ""

\* the first of the four assignments, in the order of the code, that raises
\* (5 when none does)
FirstBadHeader(headers) ==
    IF \E i \in 1..4 : HeaderExc(headers, HeaderNames[i]) # ""
    THEN CHOOSE i \in 1..4 :
            /\ HeaderExc(headers, HeaderNames[i]) # ""
            /\ \A j \in 1..(i - 1) : HeaderExc(headers, HeaderNames[j]) = ""
    ELSE 5

\* the assignments with remaining read from the reset header
Observe_WrongHeader(api, headers) ==
    LET k == FirstBadHeader(headers)
        val(i) == Some(PyInt(headers[HeaderNames[i]]))
    IN  [token |-> api.token,
         limit |-> IF k > 1 THEN val(1) ELSE api.limit,
         consumed |-> IF k > 2 THEN val(2) ELSE api.consumed,
         reset |-> IF k > 3 THEN val(3) ELSE api.reset,
         remaining |-> IF k > 4 THEN val(3) ELSE api.remaining]

\* the four assignments of get_data_from_url, each done unless an earlier raised
Observe(api, headers) ==
    LET k == FirstBadHeader(headers)
        val(i) == Some(PyInt(headers[HeaderNames[i]]))
    IN  [token |-> api.token,
         limit |-> IF k > 1 THEN val(1) ELSE api.limit,
         consumed |-> IF k > 2 THEN val(2) ELSE api.consumed,
         reset |-> IF k > 3 THEN val(3) ELSE api.reset,
         remaining |-> IF k > 4 THEN val(4) ELSE api.remaining]

RECURSIVE urlencode(_)
\* urllib.parse.urlencode of the params dict (its items in insertion order)
urlencode(params) ==
    IF params = <<>> THEN ""
    ELSE params[1][1] \o "=" \o PyStr(params[1][2])
            \o (IF Len(params) > 1 THEN "&" ELSE "") \o urlencode(Tail(params))

build_final_url(base_url, params) == base_url \o "&" \o urlencode(params)

-----------------------------------------------------------------------------
(* get_data_from_url *)

\* The answer of the network to one GET: [t |-> "fail"] when requests.get
\* raises, else [t |-> "response", headers, body].  A body is
\* [text, json]: text is "empty" (response.text is falsy), "invalid" (not
\* JSON) or "json", and json the parsed object.  In a JSON object the values
\* of s and errmsg are strings and every other value is a list of cells, a
\* cell being <<v>> or, for null, << >>.

\* a denial that takes one off remaining
Denied_Decrements(api) ==
    [api |-> [api EXCEPT !.remaining = Some(@[1] - 1)],
     ret |-> ReturnStr("Rate Limit Exceeded"), steps |-> <<"gate">>,
     request |-> NoRequest, headers |-> <<>>, body |-> None]

\* the else branch of get_data_from_url: the gate is closed
Denied(api) ==
    [api |-> api, ret |-> ReturnStr("Rate Limit Exceeded"), steps |-> <<"gate">>,
     request |-> NoRequest, headers |-> <<>>, body |-> None]

\* a get_data_from_url that catches the failure of requests.get and asks again
get_data_from_url_Retry(api, url, params, net) ==
    IF GateOpen(api)
    THEN LET final_url == IF params # <<>> THEN build_final_url(url.text, params)
                          ELSE url.text
             built == IF params # <<>> THEN <<"gate", "build_final_url", "requests.get">>
                      ELSE <<"gate", "requests.get">>
             request == [url |-> final_url, auth |-> get_header(api)]
         IN  IF ~url.scheme
             THEN [api |-> api, ret |-> Raise("MissingSchema", ""), steps |-> built,
                   request |-> request, headers |-> <<>>, body |-> None]
             ELSE IF net.t = "fail"
             THEN [api |-> api, ret |-> Raise("ConnectionError", ""),
                   steps |-> built \o <<"requests.get">>,
                   request |-> request, headers |-> <<>>, body |-> None]
             ELSE IF FirstBadHeader(net.headers) < 5
             THEN [api |-> Observe(api, net.headers),
                   ret |-> Raise(HeaderExc(net.headers,
                                           HeaderNames[FirstBadHeader(net.headers)]), ""),
                   steps |-> built \o <<"observe">>,
                   request |-> request, headers |-> net.headers, body |-> None]
             ELSE [api |-> Observe(api, net.headers),
                   ret |-> Return("Response", ""),
                   steps |-> built \o <<"observe">>,
                   request |-> request, headers |-> net.headers, body |-> Some(net.body)]
    ELSE Denied(api)

\* get_data_from_url(url, params) on the client `api`, the network answering
\* `net`: the client after the call, the value returned or the exception
\* raised, the steps taken in order, and the request handed to requests.get.
\* url is [scheme, text]: requests.get raises MissingSchema on a URL without
\* a scheme, before anything is sent.
get_data_from_url(api, url, params, net) ==
    IF GateOpen(api)
    THEN LET final_url == IF params # <<>> THEN build_final_url(url.text, params)
                          ELSE url.text
             built == IF params # <<>> THEN <<"gate", "build_final_url", "requests.get">>
                      ELSE <<"gate", "requests.get">>
             request == [url |-> final_url, auth |-> get_header(api)]
         IN  IF ~url.scheme
             THEN [api |-> api, ret |-> Raise("MissingSchema", ""), steps |-> built,
                   request |-> request, headers |-> <<>>, body |-> None]
             ELSE IF net.t = "fail"
             THEN [api |-> api, ret |-> Raise("ConnectionError", ""), steps |-> built,
                   request |-> request, headers |-> <<>>, body |-> None]
             ELSE IF FirstBadHeader(net.headers) < 5
             THEN [api |-> Observe(api, net.headers),
                   ret |-> Raise(HeaderExc(net.headers,
                                           HeaderNames[FirstBadHeader(net.headers)]), ""),
                   steps |-> built \o <<"observe">>,
                   request |-> request, headers |-> net.headers, body |-> None]
             ELSE [api |-> Observe(api, net.headers),
                   ret |-> Return("Response", ""),
                   steps |-> built \o <<"observe">>,
                   request |-> request, headers |-> net.headers, body |-> Some(net.body)]
    ELSE Denied(api)

-----------------------------------------------------------------------------
(* Classification of a response body *)

\* one case for both statuses, returning response_json['errmsg']
process_not_ok_response_OneCase(json) ==
    IF json["s"] \in {"no_data", "error"}
    THEN IF "errmsg" \in DOMAIN json
         THEN [ret |-> ReturnStr(json["errmsg"]), reads |-> {"s", "errmsg"}]
         ELSE [ret |-> Raise("KeyError", "errmsg"), reads |-> {"s", "errmsg"}]
    ELSE [ret |-> ReturnNone, reads |-> {"s"}]

\* the error case returning the no-data string
process_not_ok_response_NoDataStr(json) ==
    IF json["s"] \in {"no_data", "error"}
    THEN [ret |-> ReturnStr("No Data"), reads |-> {"s"}]
    ELSE [ret |-> ReturnNone, reads |-> {"s"}]

\* the error case reading response_json.get('errmsg')
process_not_ok_response_Get(json) ==
    IF json["s"] = "no_data"
    THEN [ret |-> ReturnStr("No Data"), reads |-> {"s"}]
    ELSE IF json["s"] = "error"
    THEN IF "errmsg" \in DOMAIN json
         THEN [ret |-> ReturnStr(json["errmsg"]), reads |-> {"s", "errmsg"}]
         ELSE [ret |-> ReturnNone, reads |-> {"s", "errmsg"}]
    ELSE [ret |-> ReturnNone, reads |-> {"s"}]

\* process_not_ok_response(response_json): the result and the keys it read.
\* The match statement has no default case: any other status falls through
\* and the function returns None.
process_not_ok_response(json) ==
    IF json["s"] = "no_data"
    THEN [ret |-> ReturnStr("No Data"), reads |-> {"s"}]
    ELSE IF json["s"] = "error"
    THEN IF "errmsg" \in DOMAIN json
         THEN [ret |-> ReturnStr(json["errmsg"]), reads |-> {"s", "errmsg"}]
         ELSE [ret |-> Raise("KeyError", "errmsg"), reads |-> {"s", "errmsg"}]
    ELSE [ret |-> ReturnNone, reads |-> {"s"}]

-----------------------------------------------------------------------------
(* Normalization of an ok body *)

Min(a, b) == IF a < b THEN a ELSE b

\* the list-valued keys of a JSON object
ListKeys(json) == DOMAIN json \ {"s", "errmsg"}

\* pd.DataFrame(dict) accepts the object: it holds a list, and its lists
\* have one length (else pandas raises ValueError)
FrameOk(json) ==
    /\ ListKeys(json) # {}
    /\ \A j, k \in ListKeys(json) : Len(json[j]) = Len(json[k])

FrameLen(json) == Len(json[CHOOSE k \in ListKeys(json) : TRUE])

NaN == <<>>

\* rename(columns=...) gives two columns one label: a field that is renamed to
\* the label and a field that bears it already; reindex then raises ValueError
Collides(json, columns, sources) ==
    \E c \in 1..Len(columns) :
        /\ sources[c] # columns[c]
        /\ sources[c] \in ListKeys(json)
        /\ columns[c] \in ListKeys(json)

\* the cell of row i of the column `column` after rename and reindex: the
\* field `key` renamed to it, else the field that bears its label, else NaN
Cell(json, key, column, i) ==
    IF key \in ListKeys(json) THEN json[key][i]
    ELSE IF column \in ListKeys(json) THEN json[column][i]
    ELSE NaN

Table(columns, rows) == ReturnData("DataFrame", [columns |-> columns, rows |-> rows])

candle_columns == <<"symbol", "date", "close", "high", "low", "open", "volume">>

\* a rename that maps o to close
candle_source_OpenAsClose ==
    [date |-> "t", close |-> "o", high |-> "h", low |-> "l", open |-> "o", volume |-> "v"]

\* the rename of _format_candle_data, read from target to source
candle_source == [date |-> "t", close |-> "c", high |-> "h", low |-> "l",
                  open |-> "o", volume |-> "v"]

\* the ok branch of Symbol._format_candle_data
format_candle_ok(json, symbol) ==
    IF ~FrameOk(json) THEN Raise("ValueError", "")
    ELSE IF Collides(json, Tail(candle_columns),
                     [c \in 1..(Len(candle_columns) - 1) |->
                         candle_source[candle_columns[c + 1]]])
    THEN Raise("ValueError", "")
    ELSE Table(candle_columns,
               [i \in 1..FrameLen(json) |->
                   [c \in 1..Len(candle_columns) |->
                       IF c = 1 THEN <<symbol>>
                       ELSE Cell(json, candle_source[candle_columns[c]],
                                 candle_columns[c], i)]])

quote_columns ==
    <<"updated", "symbol", "bid", "bid_size", "mid", "ask", "ask_size", "last",
      "volume", "52_week_high", "52_week_low", "open_interest", "underlying_price",
      "in_the_money", "intrinsic_value", "extrinsic_value", "iv", "delta", "gamma",
      "theta", "vega", "rho">>

\* the source field of each quote column, in the order of quote_columns
quote_sources ==
    <<"updated", "symbol", "bid", "bidSize", "mid", "ask", "askSize", "last",
      "volume", "52weekHigh", "52weekLow", "openInterest", "underlyingPrice",
      "inTheMoney", "intrinsicValue", "extrinsicValue", "iv", "delta", "gamma",
      "theta", "vega", "rho">>

\* the dict handed to pd.DataFrame by _format_quote_data: the object's quote fields
QuoteFields(json) ==
    [k \in {quote_sources[c] : c \in 1..Len(quote_sources)} \cap DOMAIN json |-> json[k]]

\* dropna(axis=1): the columns that stay are those without any NaN cell
QuoteKept(json) ==
    SelectSeq([c \in 1..Len(quote_columns) |-> c],
              LAMBDA c : /\ quote_sources[c] \in DOMAIN json
                         /\ \A i \in 1..Len(json[quote_sources[c]]) :
                                json[quote_sources[c]][i] # NaN)

\* the ok branch of Symbol._format_quote_data
format_quote_ok(json) ==
    IF ~FrameOk(QuoteFields(json)) THEN Raise("ValueError", "")
    ELSE Table([k \in 1..Len(QuoteKept(json)) |-> quote_columns[QuoteKept(json)[k]]],
               [i \in 1..FrameLen(QuoteFields(json)) |->
                   [k \in 1..Len(QuoteKept(json)) |->
                       json[quote_sources[QuoteKept(json)[k]]][i]]])

\* the ok branch of Symbol._format_expirations_data
format_expirations_ok(json) ==
    IF "expirations" \in DOMAIN json THEN ReturnData("list", json["expirations"])
    ELSE Raise("KeyError", "expirations")

RECURSIVE StrikeRows(_, _)
\* one row per strike, for each expiration in the order of the source keys
StrikeRows(json, keys) ==
    IF keys = <<>> THEN <<>>
    ELSE [i \in 1..Len(json[keys[1]]) |-> << <<keys[1]>>, json[keys[1]][i] >>]
            \o StrikeRows(json, Tail(keys))

\* the ok branch of Symbol._format_strikes_data; `order` lists the keys of the
\* object in source order
format_strikes_ok(json, order) ==
    LET expirations == SelectSeq(order, LAMBDA k : k \notin {"s", "updated"})
    IN  Table(IF expirations = <<>> THEN <<>> ELSE <<"expiration", "strike_price">>,
              StrikeRows(json, expirations))

\* the schema with extrinsic_value spelled out
final_columns_Spelled ==
    <<"updated", "option_symbol", "underlying", "expiry_date", "option_type",
      "strike_price", "first_traded_date", "dte", "bid", "bid_size", "mid", "ask",
      "ask_size", "last_price", "open_interest", "volume", "in_the_money",
      "intrinsic_value", "extrinsic_value", "underlying_price", "iv", "delta",
      "gamma", "theta", "vega", "rho">>

final_columns ==
    <<"updated", "option_symbol", "underlying", "expiry_date", "option_type",
      "strike_price", "first_traded_date", "dte", "bid", "bid_size", "mid", "ask",
      "ask_size", "last_price", "open_interest", "volume", "in_the_money",
      "intrinsic_value", "extrnisic_value", "underlying_price", "iv", "delta",
      "gamma", "theta", "vega", "rho">>

\* rename_columns of _format_option_chain_data, as the source field of each
\* final column, in the order of final_columns
chain_sources ==
    <<"updated", "optionSymbol", "underlying", "expiration", "side", "strike",
      "firstTraded", "dte", "bid", "bidSize", "mid", "ask", "askSize", "last",
      "openInterest", "volume", "inTheMoney", "intrinsicValue", "extrinsicValue",
      "underlyingPrice", "iv", "delta", "gamma", "theta", "vega", "rho">>

\* the ok branch of Symbol._format_option_chain_data
format_option_chain_ok(json) ==
    IF ~FrameOk(json) THEN Raise("ValueError", "")
    ELSE IF Collides(json, final_columns, chain_sources) THEN Raise("ValueError", "")
    ELSE Table(final_columns,
               [i \in 1..FrameLen(json) |->
                   [c \in 1..Len(final_columns) |->
                       Cell(json, chain_sources[c], final_columns[c], i)]])

\* the ok branch of MarketDataAPI.get_market_status: zip stops at the
\* shorter of the two lists
market_status_ok(json) ==
    IF "date" \notin DOMAIN json THEN Raise("KeyError", "date")
    ELSE IF "status" \notin DOMAIN json THEN Raise("KeyError", "status")
    ELSE Table(<<"date", "status">>,
               [i \in 1..Min(Len(json["date"]), Len(json["status"])) |->
                   <<json["date"][i], json["status"][i]>>])

Ops == {"quote", "candles", "expirations", "strikes", "option_chain", "market_status"}

\* the normalizer of each operation
normalize(op, json, order, symbol) ==
    CASE op = "quote" -> format_quote_ok(json)
      [] op = "candles" -> format_candle_ok(json, symbol)
      [] op = "expirations" -> format_expirations_ok(json)
      [] op = "strikes" -> format_strikes_ok(json, order)
      [] op = "option_chain" -> format_option_chain_ok(json)
      [] op = "market_status" -> market_status_ok(json)

\* the test written as `status != 'error'`
IsOk_NotError(json) == json["s"] # "error"

\* `if status == 'ok':`
IsOk(json) == json["s"] = "ok"

\* What each _format_*_data method, and the tail of get_market_status, does
\* with the value get_data_from_url returned: the result, the JSON keys read
\* and the steps taken.  `got` is the ret of get_data_from_url (a str has no
\* attribute text or status_code), `body` the response's body.
format_response(op, got, body, symbol) ==
    IF got.t # "Response"
    THEN [ret |-> Raise("AttributeError", ""), reads |-> {}, steps |-> <<>>]
    ELSE IF body.text = "empty"
    THEN [ret |-> Raise("Exception", ""), reads |-> {}, steps |-> <<>>]
    ELSE IF body.text = "invalid"
    THEN [ret |-> Raise("JSONDecodeError", ""), reads |-> {}, steps |-> <<"classify">>]
    ELSE IF "s" \notin DOMAIN body.json
    THEN [ret |-> Raise("KeyError", "s"), reads |-> {"s"}, steps |-> <<"classify">>]
    ELSE IF IsOk(body.json)
    THEN [ret |-> normalize(op, body.json, body.order, symbol),
          reads |-> DOMAIN body.json, steps |-> <<"classify", "normalize">>]
    ELSE [ret |-> process_not_ok_response(body.json).ret,
          reads |-> process_not_ok_response(body.json).reads,
          steps |-> <<"classify">>]

-----------------------------------------------------------------------------
(* Option symbol *)

RECURSIVE Join(_)
\* the str made of the characters of a sequence
Join(chars) == IF chars = <<>> THEN "" ELSE chars[1] \o Join(Tail(chars))

RECURSIVE Split(_, _)
\* text.split(sep) on a sequence of characters
Split(chars, sep) ==
    IF \E i \in 1..Len(chars) : chars[i] = sep
    THEN LET i == CHOOSE i \in 1..Len(chars) :
                     chars[i] = sep /\ \A j \in 1..(i - 1) : chars[j] # sep
         IN  <<SubSeq(chars, 1, i - 1)>> \o Split(SubSeq(chars, i + 1, Len(chars)), sep)
    ELSE <<chars>>

AllDigits(s) == s # <<>> /\ \A i \in 1..Len(s) : IsDigit(s[i])

IsLeap(y) == (y % 4 = 0 /\ y % 100 # 0) \/ y % 400 = 0

DaysIn(y, m) ==
    IF m = 2 THEN (IF IsLeap(y) THEN 29 ELSE 28)
    ELSE IF m \in {4, 6, 9, 11} THEN 30 ELSE 31

\* datetime.strptime(text, '%Y-%m-%d') accepts the text: four digits, one or
\* two digits of a month, one or two digits of a day of that month
StrptimeOk(chars) ==
    LET p == Split(chars, "-")
    IN  /\ Len(p) = 3
        /\ AllDigits(p[1]) /\ Len(p[1]) = 4
        /\ AllDigits(p[2]) /\ Len(p[2]) <= 2
        /\ AllDigits(p[3]) /\ Len(p[3]) <= 2
        /\ DigitsValue(p[2]) \in 1..12
        /\ DigitsValue(p[3]) >= 1
        /\ DigitsValue(p[3]) <= DaysIn(DigitsValue(p[1]), DigitsValue(p[2]))

\* datetime.strptime(text, '%Y-%m-%d').strftime('%y%m%d')
Yymmdd(chars) ==
    LET p == Split(chars, "-")
    IN  ZeroPad(NatToStr(DigitsValue(p[1]) % 100), 2)
            \o ZeroPad(NatToStr(DigitsValue(p[2])), 2)
            \o ZeroPad(NatToStr(DigitsValue(p[3])), 2)

\* the characters of date.strftime("%Y-%m-%d")
StrfDateChars(n) ==
    LET pad(k, w) == [i \in 1..w |-> Digits[((k \div (10 ^ (w - i))) % 10) + 1]]
    IN  pad(n \div 10000, 4) \o <<"-">> \o pad((n \div 100) % 100, 2)
            \o <<"-">> \o pad(n % 100, 2)

\* option_type.upper(), on the option types of the model
Upper(text) ==
    CASE text \in {"call", "Call", "CALL"} -> "CALL"
      [] text \in {"put", "Put", "PUT"} -> "PUT"
      [] text = "straddle" -> "STRADDLE"

\* a match with a default case that stores C
OptionLetter_Default(option_type) ==
    IF Upper(option_type) = "PUT" THEN "P" ELSE "C"

\* the letter Option.__init__ stores; "" when no case of its match applies
\* and the attribute option_type stays unset
OptionLetter(option_type) ==
    IF Upper(option_type) = "CALL" THEN "C"
    ELSE IF Upper(option_type) = "PUT" THEN "P"
    ELSE ""

\* The strike prices of the model, in ten-thousandths, whose product with
\* 1000 in double arithmetic lies just below the exact product:
\* 2.01 * 1000 evaluates to 2009.9999999999998.
BelowExact == {20100}

\* strike_price * 1000 in double arithmetic, in tenths and cut toward zero
Times1000(n) == IF n \in BelowExact THEN n - 1 ELSE n

\* int(strike_price * 1000) of the strike price n / 10000: int() cuts the
\* product toward zero
IntOfTimes1000(n) ==
    IF Times1000(n) >= 0 THEN Times1000(n) \div 10
    ELSE 0 - ((0 - Times1000(n)) \div 10)

\* '{:0>8}'.format(int(self.strike_price * 1000)), the strike price given in
\* ten-thousandths of a unit
StrikeDigits(strike) == ZeroPad(IntToStr(IntOfTimes1000(strike)), 8)

\* Option._build_option_symbol
build_option_symbol(underlying, expiry_chars, letter, strike) ==
    underlying \o Yymmdd(expiry_chars) \o letter \o StrikeDigits(strike)

-----------------------------------------------------------------------------
(* Symbol objects *)

\* Symbol.__init__ then Stock.__init__ / Index.__init__, the client being `api`
NewSymbol(kind, symbol, country, api) ==
    [kind |-> kind, symbol |-> symbol, country |-> country, underlying |-> symbol,
     api |-> api,
     candle_url |-> PyS(IF kind = "stock" THEN api_urls.stock_candles
                        ELSE api_urls.index_candles),
     quote_url |-> PyS(IF kind = "stock" THEN api_urls.stock_quote
                       ELSE api_urls.index_quote),
     expirations_url |-> PyNone, strikes_url |-> PyNone,
     strike_price |-> 0, option_type |-> "", expiry_date |-> <<>>,
     option_symbol |-> ""]

\* Option.__init__ raises this ("" when it completes).  super().__init__ is
\* called as Symbol.__init__(country, symbol_type='option', ...): the country
\* argument lands in the symbol parameter and country keeps its default.
OptionInitExc(option_type, expiration_date) ==
    IF expiration_date.t \notin {"str", "date"} THEN "TypeError"
    ELSE IF expiration_date.t = "str" /\ ~StrptimeOk(expiration_date.chars)
    THEN "ValueError"
    ELSE IF OptionLetter(option_type) = "" THEN "AttributeError"
    ELSE ""

\* Symbol.__init__(symbol, country="US", ...) as Option.__init__ calls it,
\* with its country as the one positional argument: what it stores
SymbolInitOfOption(country) == [symbol |-> country, country |-> PyS("US")]

NewOption(underlying, strike, option_type, expiration_date, country, api) ==
    LET expiry == IF expiration_date.t = "str" THEN expiration_date.chars
                  ELSE StrfDateChars(expiration_date.n)
        sym == build_option_symbol(underlying.s, expiry, OptionLetter(option_type), strike)
    IN  [kind |-> "option", symbol |-> PyS(sym),
         country |-> SymbolInitOfOption(country).country,
         underlying |-> underlying, api |-> api,
         candle_url |-> PyNone,
         quote_url |-> PyS(api_urls.option_quote),
         expirations_url |-> PyS(api_urls.option_expirations),
         strikes_url |-> PyS(api_urls.option_strikes),
         strike_price |-> strike, option_type |-> OptionLetter(option_type),
         expiry_date |-> expiry,
         option_symbol |-> sym]

-----------------------------------------------------------------------------
(* The params dict of each operation: [exc, url, params], exc the exception *)
(* raised before get_data_from_url is reached ("" when none is)             *)

Prep0 == [exc |-> "", url |-> [scheme |-> FALSE, text |-> ""], params |-> <<>>]

Suffix == "/?format=json&dateformat=timestamp"

\* `if val: params[key] = val`
Put(acc, key, val) ==
    IF acc.exc # "" \/ ~Truthy(val) THEN acc
    ELSE [acc EXCEPT !.params = Append(@, <<key, val>>)]

\* MarketDataAPI.get_date_string of a date or datetime (of anything else it
\* raises: `raise "Date object not provided"` is a TypeError)
get_date_string(val) == PyS(StrfDate(val.n))

\* `if val: if isinstance(probe, str): params[key] = val
\*          else: params[key] = get_date_string(val)`
PutDate(acc, key, val, probe) ==
    IF acc.exc # "" \/ ~Truthy(val) THEN acc
    ELSE IF probe.t = "str" THEN [acc EXCEPT !.params = Append(@, <<key, val>>)]
    ELSE IF val.t = "date"
    THEN [acc EXCEPT !.params = Append(@, <<key, get_date_string(val)>>)]
    ELSE [acc EXCEPT !.exc = "TypeError"]

WithUrl(acc, base, text) ==
    [acc EXCEPT !.url = [scheme |-> base.t = "str", text |-> PyStr(base) \o text]]

\* Symbol.get_quote
quote_prep(o, a) ==
    WithUrl(Put(Prep0, "52week", a.year_statistics),
            o.quote_url, PyStr(o.symbol) \o Suffix)

\* Stock.get_candles
stock_candles_prep(o, a) ==
    IF ~(Truthy(a.resolution) /\ Truthy(o.symbol)) THEN [Prep0 EXCEPT !.exc = "Exception"]
    ELSE WithUrl(
           Put(Put(Put(Put(Put(
             PutDate(PutDate([Prep0 EXCEPT !.params = << <<"country", o.country>> >>],
                             "from", a.from_date, a.from_date),
                     "to", a.to_date, a.to_date),
             "countback", a.num_of_periods), "exchange", a.exchange),
             "extended", a.extended), "adjustsplits", a.adjustSplits),
             "adjustdividends", a.adjustDividends),
           o.candle_url, PyStr(a.resolution) \o "/" \o PyStr(o.symbol) \o Suffix)

\* Index.get_candles: the type test of to_date reads from_date
index_candles_prep(o, a) ==
    IF ~(Truthy(a.resolution) /\ Truthy(o.symbol)) THEN [Prep0 EXCEPT !.exc = "Exception"]
    ELSE WithUrl(
           Put(PutDate(PutDate(Prep0, "from", a.from_date, a.from_date),
                       "to", a.to_date, a.from_date),
               "countback", a.num_of_periods),
           o.candle_url, PyStr(a.resolution) \o "/" \o PyStr(o.symbol) \o Suffix)

\* Symbol.get_expirations
expirations_prep(o, a) ==
    WithUrl(PutDate(Put(Prep0, "strike", a.strike_price), "date", a.ason_date, a.ason_date),
            o.expirations_url, PyStr(o.underlying) \o Suffix)

\* Symbol.get_strikes
strikes_prep(o, a) ==
    WithUrl(PutDate(PutDate(Prep0, "expiration", a.expiration_date, a.expiration_date),
                    "date", a.ason_date, a.ason_date),
            o.strikes_url, PyStr(o.underlying) \o Suffix)

\* Symbol.get_option_chain
option_chain_prep(o, a) ==
    IF ~Truthy(o.underlying) THEN [Prep0 EXCEPT !.exc = "TypeError"]
    ELSE WithUrl(
           Put(Put(Put(Put(Put(Put(Put(Put(Put(Put(Put(Put(Put(Put(Put(
             PutDate(PutDate(PutDate(PutDate(
               [Prep0 EXCEPT !.params = << <<"range", a.moneyness>> >>],
               "date", a.ason_date, a.ason_date),
               "expiration", a.expiration_date, a.expiration_date),
               "from", a.from_date, a.from_date),
               "to", a.to_date, a.to_date),
             "month", a.month), "year", a.year), "weekly", a.include_weekly),
             "monthly", a.include_monthly), "quarterly", a.include_quarterly),
             "dte", a.dte), "delta", a.delta), "side", a.option_type),
             "strike", a.strike_price), "strikeLimit", a.strike_price_count),
             "minOpenInterest", a.minimum_oi), "minVolume", a.minimum_volume),
             "minLiquidity", a.minimum_liquidity),
             "maxBidAskSpread", a.max_bid_ask_spread),
             "maxBidAskSpreadPct", a.max_bid_ask_spread_pct),
           PyS(api_urls.option_chain), PyStr(o.underlying) \o Suffix)

\* MarketDataAPI.get_market_status: the type test of from_date reads ason_date
market_status_prep(a) ==
    [Put(PutDate(PutDate(PutDate(
        [Prep0 EXCEPT !.params =
            << <<"country", IF Truthy(a.country) THEN a.country ELSE PyS("US")>> >>],
        "date", a.ason_date, a.ason_date),
        "from", a.from_date, a.ason_date),
        "to", a.to_date, a.to_date),
        "countback", a.num_of_days)
     EXCEPT !.url = [scheme |-> TRUE,
                     text |-> api_urls.market_status \o "?format=json&dateformat=timestamp"]]

-----------------------------------------------------------------------------
(* Inputs *)

Tokens == {PyNone, PyS("tokA")}
CountryInputs == {PyNone}

ExpiryStr(chars) == [t |-> "str", chars |-> chars, n |-> 0]
ExpiryDate(n) == [t |-> "date", chars |-> <<>>, n |-> n]

OptionInputs ==
    [underlying : {PyS("IBM")},
     country : {PyNone},
     strike : {1400000},
     option_type : {"Call", "straddle"},
     expiration_date : {ExpiryStr(<<"2", "0", "2", "3", "-", "0", "2", "-", "1", "0">>),
                        ExpiryStr(<<"2", "0", "2", "3", "-", "0", "2", "-", "3", "0">>),
                        ExpiryDate(20230210)}]

\* 140, 2.01, 1.2346, -5 and 100000, in ten-thousandths
StrikeInputs == {1400000, 20100, 12346, -50000, 1000000000}

\* the arguments of the constructions that are studied on their own
OptionInputsWide ==
    [underlying : {PyS("IBM")},
     country : {PyNone},
     strike : StrikeInputs,
     option_type : {"Call", "Put", "straddle"},
     expiration_date : {ExpiryStr(<<"2", "0", "2", "3", "-", "0", "2", "-", "1", "0">>),
                        ExpiryStr(<<"2", "0", "2", "3", "-", "0", "2", "-", "3", "0">>),
                        ExpiryDate(20230210)}]
        \cup [underlying : {PyS("F")},
              country : {PyS("CA")},
              strike : {1400000},
              option_type : {"put"},
              expiration_date : {ExpiryDate(20241220)}]

Headers(limit, consumed, reset, remaining) ==
    (HeaderNames[1] :> limit) @@ (HeaderNames[2] :> consumed)
        @@ (HeaderNames[3] :> reset) @@ (HeaderNames[4] :> remaining)

Without(headers, name) == [k \in DOMAIN headers \ {name} |-> headers[k]]

\* a response that leaves quota, and one that reports it used up
HeadersLeft == Headers(<<"5">>, <<"4">>, <<"7">>, <<"1">>)
HeadersUsedUp == Headers(<<"5">>, <<"5">>, <<"7">>, <<"0">>)

\* responses that carry the four headers as integers
GoodHeaders ==
    {HeadersLeft, HeadersUsedUp,
     Headers(<<"1", "0">>, <<"8">>, <<"8">>, <<"2">>),
     Headers(<<"1", "0">>, <<"1", "1">>, <<"8">>, <<"-", "1">>)}

\* responses that lack a header or carry one that is no integer
BadHeaders ==
    LET h == Headers(<<"5">>, <<"5">>, <<"8">>, <<"0">>)
    IN  {Without(h, HeaderNames[i]) : i \in 1..4}
            \cup {[h EXCEPT ![HeaderNames[i]] = <<"x">>] : i \in 1..4}

Body(text, json, order) == [text |-> text, json |-> json, order |-> order]

ErrMsgs == {"bad symbol", "No Data", "Rate Limit Exceeded"}

NotOkBodies ==
    {Body("empty", <<>>, <<>>), Body("invalid", <<>>, <<>>), Body("json", <<>>, <<>>),
     Body("json", "s" :> "no_data", <<"s">>),
     Body("json", "s" :> "error", <<"s">>),
     Body("json", "s" :> "unknown", <<"s">>)}
        \cup {Body("json", ("s" :> "error") @@ ("errmsg" :> m), <<"s", "errmsg">>) :
                m \in ErrMsgs}

OkBody ==
    [quote |->
        Body("json", ("s" :> "ok") @@ ("symbol" :> << <<"AAPL">> >>)
                        @@ ("last" :> << <<150>> >>),
             <<"s", "symbol", "last">>),
     candles |->
        Body("json", ("s" :> "ok") @@ ("t" :> << <<100>>, <<200>> >>)
                        @@ ("o" :> << <<1>>, <<2>> >>) @@ ("h" :> << <<3>>, <<4>> >>)
                        @@ ("l" :> << <<0>>, <<1>> >>) @@ ("c" :> << <<2>>, <<3>> >>)
                        @@ ("v" :> << <<10>>, <<20>> >>),
             <<"s", "t", "o", "h", "l", "c", "v">>),
     expirations |->
        Body("json", ("s" :> "ok") @@ ("expirations" :> <<"2023-02-10">>),
             <<"s", "expirations">>),
     strikes |->
        Body("json", ("s" :> "ok") @@ ("updated" :> << <<100>> >>)
                        @@ ("2023-02-10" :> << <<140>>, <<145>> >>),
             <<"s", "updated", "2023-02-10">>),
     option_chain |->
        Body("json", ("s" :> "ok") @@ ("optionSymbol" :> << <<"IBM230210C00140000">> >>)
                        @@ ("strike" :> << <<140>> >>),
             <<"s", "optionSymbol", "strike">>),
     market_status |->
        Body("json", ("s" :> "ok") @@ ("date" :> << <<100>> >>)
                        @@ ("status" :> << <<"open">> >>),
             <<"s", "date", "status">>)]

\* further ok bodies: fields in another order, fields no operation names,
\* arrays of unequal length, null elements
MoreOkBodies ==
    [quote |->
        {Body("json", ("s" :> "ok") @@ ("symbol" :> << <<"AAPL">>, <<"MSFT">> >>)
                         @@ ("last" :> << <<150>>, NaN >>)
                         @@ ("bid" :> << NaN, NaN >>),
              <<"s", "symbol", "last", "bid">>)},
     candles |->
        {Body("json", ("s" :> "ok") @@ ("t" :> << <<100>>, <<200>>, <<300>> >>)
                         @@ ("o" :> << <<1>>, <<2>>, <<5>> >>)
                         @@ ("h" :> << <<3>>, <<4>>, <<7>> >>)
                         @@ ("l" :> << <<0>>, <<1>>, <<4>> >>)
                         @@ ("c" :> << <<2>>, <<3>>, <<6>> >>)
                         @@ ("v" :> << <<10>>, <<20>>, <<30>> >>)
                         @@ ("x" :> << <<8>>, <<9>>, <<8>> >>),
              <<"v", "x", "c", "s", "l", "h", "o", "t">>)},
     expirations |-> {},
     strikes |-> {},
     option_chain |->
        {Body("json", ("s" :> "ok")
                         @@ ("optionSymbol" :> << <<"IBM230210C00140000">>,
                                                  <<"IBM230210P00140000">> >>)
                         @@ ("side" :> << <<"call">>, <<"put">> >>)
                         @@ ("strike" :> << <<140>>, <<140>> >>)
                         @@ ("last" :> << <<5>>, NaN >>)
                         @@ ("extrinsicValue" :> << <<1>>, <<2>> >>)
                         @@ ("x" :> << <<8>>, <<9>> >>),
              <<"x", "side", "s", "optionSymbol", "extrinsicValue", "last", "strike">>)},
     market_status |->
        {Body("json", ("s" :> "ok") @@ ("date" :> << <<100>>, <<200>> >>)
                         @@ ("status" :> << <<"open">> >>),
              <<"s", "date", "status">>)}]

Response(headers, body) == [t |-> "response", headers |-> headers, body |-> body]

\* requests.get raises: no response
NetFail == [t |-> "fail", headers |-> <<>>, body |-> Body("empty", <<>>, <<>>)]

\* What the network may answer to a request of operation `op` made with the
\* default arguments: no response, an ok body under each header map (every
\* header map for a quote, the two plain ones otherwise), each further ok
\* body, and each body that is not ok.
Nets ==
    [op \in Ops |->
        {NetFail}
            \cup {Response(h, OkBody[op]) :
                    h \in IF op = "quote" THEN GoodHeaders \cup BadHeaders
                          ELSE {HeadersLeft, HeadersUsedUp}}
            \cup {Response(HeadersLeft, b) : b \in MoreOkBodies[op]}
            \cup {Response(HeadersLeft, b) : b \in NotOkBodies}]

\* What it may answer to a request made with other arguments
PlainNets == [op \in Ops |-> {Response(HeadersLeft, OkBody[op])}]

-----------------------------------------------------------------------------
(* Arguments of the operations: the defaults of each signature, and the    *)
(* calls the model makes                                                   *)

QuoteDefaults == [year_statistics |-> PyB(FALSE)]

QuoteArgs == {QuoteDefaults, [year_statistics |-> PyB(TRUE)]}

StockCandleDefaults ==
    [resolution |-> PyS("D"), from_date |-> PyNone, to_date |-> PyNone,
     num_of_periods |-> PyNone, exchange |-> PyNone, extended |-> PyB(FALSE),
     adjustSplits |-> PyB(TRUE), adjustDividends |-> PyB(TRUE)]

StockCandleArgs ==
    {StockCandleDefaults,
     [StockCandleDefaults EXCEPT !.from_date = PyS("2023-01-03")],
     [StockCandleDefaults EXCEPT !.to_date = PyI(20230103)],
     [StockCandleDefaults EXCEPT !.resolution = PyS("")],
     [StockCandleDefaults EXCEPT !.adjustSplits = PyB(FALSE)]}

IndexCandleDefaults ==
    [resolution |-> PyS("D"), from_date |-> PyNone, to_date |-> PyNone,
     num_of_periods |-> PyNone]

IndexCandleArgs ==
    {IndexCandleDefaults,
     [IndexCandleDefaults EXCEPT !.from_date = PyD(20230103)],
     [IndexCandleDefaults EXCEPT !.to_date = PyS("2023-01-03")]}

ExpirationsDefaults == [strike_price |-> PyNone, ason_date |-> PyNone]

ExpirationsArgs ==
    {ExpirationsDefaults, [strike_price |-> PyI(140), ason_date |-> PyS("2023-01-03")]}

StrikesDefaults == [expiration_date |-> PyNone, ason_date |-> PyNone]

StrikesArgs ==
    {StrikesDefaults, [expiration_date |-> PyD(20230210), ason_date |-> PyNone]}

OptionChainDefaults ==
    [ason_date |-> PyNone, expiration_date |-> PyNone, from_date |-> PyNone,
     to_date |-> PyNone, month |-> PyNone, year |-> PyNone,
     include_weekly |-> PyB(FALSE), include_monthly |-> PyB(FALSE),
     include_quarterly |-> PyB(FALSE), dte |-> PyNone, delta |-> PyNone,
     option_type |-> PyNone, moneyness |-> PyS("all"), strike_price |-> PyNone,
     strike_price_count |-> PyNone, minimum_oi |-> PyNone, minimum_volume |-> PyNone,
     minimum_liquidity |-> PyNone, max_bid_ask_spread |-> PyNone,
     max_bid_ask_spread_pct |-> PyNone]

OptionChainArgs ==
    {OptionChainDefaults,
     [OptionChainDefaults EXCEPT !.include_weekly = PyB(TRUE), !.dte = PyI(7)],
     [OptionChainDefaults EXCEPT !.dte = PyI(0)]}

MarketStatusDefaults ==
    [country |-> PyNone, ason_date |-> PyNone, from_date |-> PyNone,
     to_date |-> PyNone, num_of_days |-> PyNone]

MarketStatusArgs ==
    {MarketStatusDefaults,
     [MarketStatusDefaults EXCEPT !.ason_date = PyS("2023-01-03")],
     [MarketStatusDefaults EXCEPT !.from_date = PyS("2023-01-03")]}

-----------------------------------------------------------------------------
(* State *)

NoCall ==
    [op |-> "none", kind |-> "", api |-> 0, args |-> <<>>, nobjs |-> 0,
     before |-> None, steps |-> <<>>, params |-> <<>>,
     request |-> NoRequest, headers |-> <<>>, body |-> None,
     reads |-> {}, got |-> Raise("", ""), outcome |-> Raise("", "")]

Threads == {"t1", "t2"}

NoLocals == [seen |-> None, quota |-> 0, headers |-> <<>>]

Init ==
    /\ instances = None
    /\ heap = <<>>
    /\ objs = <<>>
    /\ last = NoCall
    /\ pc = [t \in Threads |-> "idle"]
    /\ loc = [t \in Threads |-> NoLocals]
    /\ quota = ServerQuota

\* A public operation `op` called on the client heap[api] for an object of
\* kind `kind` and symbol `symbol`, whose params are `prep`, the network
\* answering `net`: get_data_from_url is called on the client and its value
\* goes to the formatter.
Perform(kind, symbol, api, op, a, prep, net) ==
    IF prep.exc # ""
    THEN /\ last' = [NoCall EXCEPT !.op = op, !.kind = kind, !.api = api,
                                   !.args = a, !.nobjs = Len(objs),
                                   !.before = Some(heap[api]),
                                   !.steps = <<"params">>,
                                   !.outcome = Raise(prep.exc, "")]
         /\ UNCHANGED heap
    ELSE LET g == get_data_from_url(heap[api], prep.url, prep.params, net)
             f == format_response(op, g.ret,
                                  IF g.body = None THEN net.body ELSE g.body[1],
                                  symbol)
         IN  /\ heap' = [heap EXCEPT ![api] = g.api]
             /\ last' = [op |-> op, kind |-> kind, api |-> api,
                         args |-> a, nobjs |-> Len(objs),
                         before |-> Some(heap[api]), params |-> prep.params,
                         steps |-> <<"params">> \o g.steps
                                     \o (IF g.ret.kind = "raise" THEN <<>> ELSE f.steps),
                         request |-> g.request, headers |-> g.headers, body |-> g.body,
                         reads |-> IF g.ret.kind = "raise" THEN {} ELSE f.reads,
                         got |-> g.ret,
                         outcome |-> IF g.ret.kind = "raise" THEN g.ret ELSE f.ret]

\* The call, for each answer the network may give.  The answer is drawn only
\* when the call gets as far as asking for one.
Call(kind, symbol, api, op, a, prep, nets) ==
    IF prep.exc # "" \/ ~GateOpen(heap[api]) \/ ~prep.url.scheme
    THEN Perform(kind, symbol, api, op, a, prep, NetFail)
    ELSE \E net \in nets : Perform(kind, symbol, api, op, a, prep, net)

\* the caller is between two calls
Idle == last.op = "none"

\* the client `api` as it is before a constructor runs (None: it is not there yet)
Before(api) == IF api \in 1..Len(heap) THEN Some(heap[api]) ELSE None

-----------------------------------------------------------------------------
(* Actions *)

\* Stock(symbol, country, auth_token)
NewStock ==
    /\ Idle
    /\ Len(objs) < MaxObjs
    /\ \E country \in CountryInputs, auth_token \in Tokens :
         LET c == Singleton_call(instances, heap, auth_token)
         IN  /\ instances' = c.instances
             /\ heap' = c.heap
             /\ objs' = IF c.ret = 0 THEN objs
                        ELSE Append(objs, NewSymbol("stock", PyS("AAPL"), country, c.ret))
             /\ last' = [NoCall EXCEPT !.op = "new", !.kind = "stock", !.api = c.ret,
                                       !.args = [country |-> country,
                                                 auth_token |-> auth_token],
                                       !.nobjs = Len(objs),
                                       !.before = Before(c.ret),
                                       !.outcome = IF c.ret = 0 THEN Raise("TypeError", "")
                                                   ELSE Return("Stock", "")]
    /\ UNCHANGED <<pc, loc, quota>>

\* Index(symbol, country, auth_token)
NewIndex ==
    /\ Idle
    /\ Len(objs) < MaxObjs
    /\ \E country \in CountryInputs, auth_token \in Tokens :
         LET c == Singleton_call(instances, heap, auth_token)
         IN  /\ instances' = c.instances
             /\ heap' = c.heap
             /\ objs' = IF c.ret = 0 THEN objs
                        ELSE Append(objs, NewSymbol("index", PyS("SPX"), country, c.ret))
             /\ last' = [NoCall EXCEPT !.op = "new", !.kind = "index", !.api = c.ret,
                                       !.args = [country |-> country,
                                                 auth_token |-> auth_token],
                                       !.nobjs = Len(objs),
                                       !.before = Before(c.ret),
                                       !.outcome = IF c.ret = 0 THEN Raise("TypeError", "")
                                                   ELSE Return("Index", "")]
    /\ UNCHANGED <<pc, loc, quota>>

\* Option(underlying, strike_price, option_type, expiration_date, country, auth_token)
ConstructOption(inputs) ==
    /\ Idle
    /\ Len(objs) < MaxObjs
    /\ \E a \in inputs, auth_token \in Tokens :
         LET c == Singleton_call(instances, heap, auth_token)
             exc == IF c.ret = 0 THEN "TypeError"
                    ELSE OptionInitExc(a.option_type, a.expiration_date)
         IN  /\ instances' = c.instances
             /\ heap' = c.heap
             /\ objs' = IF exc # "" THEN objs
                        ELSE Append(objs, NewOption(a.underlying, a.strike, a.option_type,
                                                    a.expiration_date, a.country,
                                                    c.ret))
             /\ last' = [NoCall EXCEPT !.op = "new", !.kind = "option", !.api = c.ret,
                                       !.args = a, !.nobjs = Len(objs),
                                       !.before = Before(c.ret),
                                       !.outcome = IF exc # "" THEN Raise(exc, "")
                                                   ELSE Return("Option", "")]
    /\ UNCHANGED <<pc, loc, quota>>

NewOptionObject == ConstructOption(OptionInputs)

\* symbol.get_quote(year_statistics)
GetQuote ==
    /\ Idle
    /\ \E i \in 1..Len(objs), a \in QuoteArgs :
         Call(objs[i].kind, PyStr(objs[i].symbol), objs[i].api, "quote",
              a, quote_prep(objs[i], a),
              IF a = QuoteDefaults THEN Nets["quote"] ELSE PlainNets["quote"])
    /\ UNCHANGED <<instances, objs, pc, loc, quota>>

\* stock.get_candles(...)
StockGetCandles ==
    /\ Idle
    /\ \E i \in 1..Len(objs), a \in StockCandleArgs :
         /\ objs[i].kind = "stock"
         /\ Call(objs[i].kind, PyStr(objs[i].symbol), objs[i].api, "candles",
                 a, stock_candles_prep(objs[i], a),
                 IF a = StockCandleDefaults THEN Nets["candles"] ELSE PlainNets["candles"])
    /\ UNCHANGED <<instances, objs, pc, loc, quota>>

\* index.get_candles(...)
IndexGetCandles ==
    /\ Idle
    /\ \E i \in 1..Len(objs), a \in IndexCandleArgs :
         /\ objs[i].kind = "index"
         /\ Call(objs[i].kind, PyStr(objs[i].symbol), objs[i].api, "candles",
                 a, index_candles_prep(objs[i], a),
                 IF a = IndexCandleDefaults THEN Nets["candles"] ELSE PlainNets["candles"])
    /\ UNCHANGED <<instances, objs, pc, loc, quota>>

\* symbol.get_expirations(...)
GetExpirations ==
    /\ Idle
    /\ \E i \in 1..Len(objs), a \in ExpirationsArgs :
         Call(objs[i].kind, PyStr(objs[i].symbol), objs[i].api, "expirations",
              a, expirations_prep(objs[i], a),
              IF a = ExpirationsDefaults THEN Nets["expirations"]
              ELSE PlainNets["expirations"])
    /\ UNCHANGED <<instances, objs, pc, loc, quota>>

\* symbol.get_strikes(...)
GetStrikes ==
    /\ Idle
    /\ \E i \in 1..Len(objs), a \in StrikesArgs :
         Call(objs[i].kind, PyStr(objs[i].symbol), objs[i].api, "strikes",
              a, strikes_prep(objs[i], a),
              IF a = StrikesDefaults THEN Nets["strikes"] ELSE PlainNets["strikes"])
    /\ UNCHANGED <<instances, objs, pc, loc, quota>>

\* symbol.get_option_chain(...)
GetOptionChain ==
    /\ Idle
    /\ \E i \in 1..Len(objs), a \in OptionChainArgs :
         Call(objs[i].kind, PyStr(objs[i].symbol), objs[i].api, "option_chain",
              a, option_chain_prep(objs[i], a),
              IF a = OptionChainDefaults THEN Nets["option_chain"]
              ELSE PlainNets["option_chain"])
    /\ UNCHANGED <<instances, objs, pc, loc, quota>>

\* get_market_status(...) of the client
GetMarketStatus ==
    /\ Idle
    /\ \E j \in 1..Len(heap), a \in MarketStatusArgs :
         Call("client", "", j, "market_status", a, market_status_prep(a),
              IF a = MarketStatusDefaults THEN Nets["market_status"]
              ELSE PlainNets["market_status"])
    /\ UNCHANGED <<instances, objs, pc, loc, quota>>

\* the call has returned or raised: the caller has its result and goes on
Consume ==
    /\ ~Idle
    /\ last' = NoCall
    /\ UNCHANGED <<instances, heap, objs, pc, loc, quota>>

Next ==
    \/ NewStock
    \/ NewIndex
    \/ NewOptionObject
    \/ GetQuote
    \/ StockGetCandles
    \/ IndexGetCandles
    \/ GetExpirations
    \/ GetStrikes
    \/ GetOptionChain
    \/ GetMarketStatus
    \/ Consume

Spec == Init /\ [][Next]_vars

-----------------------------------------------------------------------------
(* The construction of Option objects on its own, over more arguments *)

NewOptionAny == ConstructOption(OptionInputsWide)

NextOption ==
    \/ NewOptionAny
    \/ Consume

SpecOption == Init /\ [][NextOption]_vars

-----------------------------------------------------------------------------
(* Two threads calling get_quote on objects that share the client.  The    *)
(* code of get_data_from_url holds no lock: each thread runs its           *)
(* statements in order, and the statements of the two threads interleave.  *)
(* The server keeps the true quota of the window (`quota`), takes one off  *)
(* for each request it serves and reports what is left in the headers of   *)
(* its answer.                                                             *)

RECURSIVE NatChars(_)
\* the decimal text of a header value, as the client's int() reads it
NatChars(n) ==
    IF n < 10 THEN <<Digits[n + 1]>>
    ELSE NatChars(n \div 10) \o <<Digits[(n % 10) + 1]>>

\* the quota the server has left after a request that found q
Served(q) == IF q > 0 THEN q - 1 ELSE 0

\* the headers of the server's answer to a request that found q
ServerHeaders(q) ==
    Headers(NatChars(ServerQuota), NatChars(ServerQuota - Served(q)),
            NatChars(7), NatChars(Served(q)))

\* the object each thread calls
ThreadObj == [t \in Threads |-> IF t = "t1" THEN 1 ELSE 2]

ThreadApi(t) == objs[ThreadObj[t]].api

InitConc ==
    LET c1 == Singleton_call(None, <<>>, PyS("tokA"))
        c2 == Singleton_call(c1.instances, c1.heap, PyS("tokA"))
    IN  /\ instances = c2.instances
        /\ heap = c2.heap
        /\ objs = <<NewSymbol("stock", PyS("AAPL"), PyNone, c1.ret),
                    NewSymbol("index", PyS("SPX"), PyNone, c2.ret)>>
        /\ last = NoCall
        /\ pc = [t \in Threads |-> "idle"]
        /\ loc = [t \in Threads |-> NoLocals]
        /\ quota = ServerQuota

\* line 133: the thread reads `remaining` and takes a branch
CheckGate(t) ==
    /\ pc[t] = "idle"
    /\ pc' = [pc EXCEPT ![t] = IF GateOpen(heap[ThreadApi(t)]) THEN "get" ELSE "denied"]
    /\ loc' = [loc EXCEPT ![t] = [seen |-> Some(heap[ThreadApi(t)].remaining),
                                  quota |-> quota, headers |-> <<>>]]
    /\ UNCHANGED <<instances, heap, objs, last, quota>>

\* line 139: requests.get; the server serves the request
Get(t) ==
    /\ pc[t] = "get"
    /\ quota' = Served(quota)
    /\ loc' = [loc EXCEPT ![t].headers = ServerHeaders(quota)]
    /\ pc' = [pc EXCEPT ![t] = "limit"]
    /\ UNCHANGED <<instances, heap, objs, last>>

\* line 141
SetLimit(t) ==
    /\ pc[t] = "limit"
    /\ heap' = [heap EXCEPT ![ThreadApi(t)].limit =
                    Some(PyInt(loc[t].headers[HeaderNames[1]]))]
    /\ pc' = [pc EXCEPT ![t] = "consumed"]
    /\ UNCHANGED <<instances, objs, last, loc, quota>>

\* line 142
SetConsumed(t) ==
    /\ pc[t] = "consumed"
    /\ heap' = [heap EXCEPT ![ThreadApi(t)].consumed =
                    Some(PyInt(loc[t].headers[HeaderNames[2]]))]
    /\ pc' = [pc EXCEPT ![t] = "reset"]
    /\ UNCHANGED <<instances, objs, last, loc, quota>>

\* line 143
SetReset(t) ==
    /\ pc[t] = "reset"
    /\ heap' = [heap EXCEPT ![ThreadApi(t)].reset =
                    Some(PyInt(loc[t].headers[HeaderNames[3]]))]
    /\ pc' = [pc EXCEPT ![t] = "remaining"]
    /\ UNCHANGED <<instances, objs, last, loc, quota>>

\* line 144, then the return of the response
SetRemaining(t) ==
    /\ pc[t] = "remaining"
    /\ heap' = [heap EXCEPT ![ThreadApi(t)].remaining =
                    Some(PyInt(loc[t].headers[HeaderNames[4]]))]
    /\ pc' = [pc EXCEPT ![t] = "sent"]
    /\ UNCHANGED <<instances, objs, last, loc, quota>>

\* the call is over; the thread may call again
Finish(t) ==
    /\ pc[t] \in {"sent", "denied"}
    /\ pc' = [pc EXCEPT ![t] = "idle"]
    /\ loc' = [loc EXCEPT ![t] = NoLocals]
    /\ UNCHANGED <<instances, heap, objs, last, quota>>

NextConc ==
    \E t \in Threads :
        \/ CheckGate(t)
        \/ Get(t)
        \/ SetLimit(t)
        \/ SetConsumed(t)
        \/ SetReset(t)
        \/ SetRemaining(t)
        \/ Finish(t)

SpecConc == InitConc /\ [][NextConc]_vars

\* the request of the thread has gone to the server
Proceeded(t) == pc[t] \in {"limit", "consumed", "reset", "remaining", "sent"}

-----------------------------------------------------------------------------
(* Two threads constructing Stock and Index objects, each with a token of  *)
(* its own.  Symbol.__init__ calls MarketDataAPI(auth_token=...), that is   *)
(* Singleton.__call__, which holds no lock: the test of line 28, the        *)
(* construction and the store of line 29 and the read of line 31 are        *)
(* separate steps, and the steps of the two threads interleave.  `given`    *)
(* (kept in last.args) lists the token each object was constructed with.    *)

TokensGiven == {PyS("tokA"), PyS("tokB")}

NoCtor == [token |-> PyNone, kind |-> "", made |-> 0]

\* the class each thread constructs
ThreadKind == [t \in Threads |-> IF t = "t1" THEN "stock" ELSE "index"]

InitNew ==
    /\ instances = None
    /\ heap = <<>>
    /\ objs = <<>>
    /\ last = [NoCall EXCEPT !.args = <<>>]
    /\ pc = [t \in Threads |-> "idle"]
    /\ loc = [t \in Threads |-> NoCtor]
    /\ quota = ServerQuota

\* the thread calls Stock(symbol, auth_token=...) or Index(symbol, auth_token=...)
Construct(t) ==
    /\ pc[t] = "idle"
    /\ Len(objs) < MaxObjs
    /\ \E auth_token \in TokensGiven :
         loc' = [loc EXCEPT ![t] = [token |-> auth_token, kind |-> ThreadKind[t],
                                    made |-> 0]]
    /\ pc' = [pc EXCEPT ![t] = "line28"]
    /\ UNCHANGED <<instances, heap, objs, last, quota>>

\* line 28: `if cls not in cls._instances:`
CallTest(t) ==
    /\ pc[t] = "line28"
    /\ pc' = [pc EXCEPT ![t] = IF instances = None THEN "line29" ELSE "line31"]
    /\ UNCHANGED <<instances, heap, objs, last, loc, quota>>

\* line 29, right-hand side: MarketDataAPI.__init__ makes an instance
CallInit(t) ==
    /\ pc[t] = "line29"
    /\ heap' = Append(heap, MarketDataAPI_init(loc[t].token))
    /\ loc' = [loc EXCEPT ![t].made = Len(heap) + 1]
    /\ pc' = [pc EXCEPT ![t] = "store"]
    /\ UNCHANGED <<instances, objs, last, quota>>

\* line 29, the assignment to cls._instances[cls]
CallStore(t) ==
    /\ pc[t] = "store"
    /\ instances' = Some(loc[t].made)
    /\ pc' = [pc EXCEPT ![t] = "line31"]
    /\ UNCHANGED <<heap, objs, last, loc, quota>>

\* line 31: `return cls._instances[cls]`, and the constructor completes
CallReturn(t) ==
    /\ pc[t] = "line31"
    /\ objs' = Append(objs, NewSymbol(loc[t].kind,
                                      PyS(IF loc[t].kind = "stock" THEN "AAPL" ELSE "SPX"),
                                      PyNone, instances[1]))
    /\ last' = [last EXCEPT !.args = Append(@, loc[t].token)]
    /\ pc' = [pc EXCEPT ![t] = "idle"]
    /\ loc' = [loc EXCEPT ![t] = NoCtor]
    /\ UNCHANGED <<instances, heap, quota>>

\* get_quote() on an object, answered with an ok quote
SendQuote ==
    /\ \E i \in 1..Len(objs) :
         LET g == get_data_from_url(heap[objs[i].api],
                                    quote_prep(objs[i], QuoteDefaults).url,
                                    quote_prep(objs[i], QuoteDefaults).params,
                                    Response(HeadersLeft, OkBody["quote"]))
         IN  /\ heap' = [heap EXCEPT ![objs[i].api] = g.api]
             /\ last' = [last EXCEPT !.op = "quote", !.kind = objs[i].kind,
                                     !.api = objs[i].api, !.nobjs = i,
                                     !.steps = <<"params">> \o g.steps,
                                     !.request = g.request]
    /\ UNCHANGED <<instances, objs, pc, loc, quota>>

\* Symbol.set_symbol(symbol)
set_symbol(o, symbol) == [o EXCEPT !.symbol = symbol]

\* object.set_symbol("MSFT")
SetSymbol ==
    /\ \E i \in 1..Len(objs) :
         /\ objs[i].symbol # PyS("MSFT")
         /\ objs' = [objs EXCEPT ![i] = set_symbol(@, PyS("MSFT"))]
    /\ UNCHANGED <<instances, heap, last, pc, loc, quota>>

NextNew ==
    \/ \E t \in Threads :
          \/ Construct(t)
          \/ CallTest(t)
          \/ CallInit(t)
          \/ CallStore(t)
          \/ CallReturn(t)
    \/ SendQuote
    \/ SetSymbol

SpecNew == InitNew /\ [][NextNew]_vars

-----------------------------------------------------------------------------
(* Properties.  They are stated on `last`, the record of the most recent   *)
(* public call, on the client it ran on before the call (last.before) and  *)
(* on that client now (heap[last.api]).                                    *)

InSteps(s) == \E i \in 1..Len(last.steps) : last.steps[i] = s

\* the last call was a public operation that got as far as get_data_from_url
Reached == last.op \in Ops /\ InSteps("gate")

\* it handed a request to requests.get
Requested == InSteps("requests.get")

\* a response came back, and its four rate-limit headers are integers
IntegerHeaders ==
    /\ InSteps("observe")
    /\ \A i \in 1..4 :
         /\ HeaderNames[i] \in DOMAIN last.headers
         /\ IsIntLiteral(last.headers[HeaderNames[i]])

\* a response came back whose body is a JSON object with discriminator s
BodyStatus(s) ==
    /\ last.body # None
    /\ last.body[1].text = "json"
    /\ "s" \in DOMAIN last.body[1].json
    /\ last.body[1].json["s"] = s

Was == last.before[1]
Now == heap[last.api]
Fields(api) == <<api.limit, api.consumed, api.remaining, api.reset>>

\* C1: a request passed to get_data_from_url is handed to the transport if and
\* only if the tracked remaining was unset or greater than 0 when the call
\* began; a call that is denied leaves remaining as it was, so the gate stays
\* closed until a response is observed.
C1_SentIffRemainingAllows ==
    Reached =>
        /\ Requested <=> (Was.remaining = None \/ Was.remaining[1] > 0)
        /\ ~Requested => Now.remaining = Was.remaining

\* a call denied after a response that reported remaining = 0
C1_Witness == Reached /\ ~Requested /\ Was.remaining = Some(0) /\ Was.limit = Some(5)

\* C2: when the gate is closed the call ends in get_data_from_url right after
\* the gate: nothing is handed to the transport, no response exists, and none
\* of limit, consumed, remaining, reset changes.
C2_DeniedTouchesNothing ==
    (Reached /\ ~(Was.remaining = None \/ Was.remaining[1] > 0)) =>
        /\ last.steps = <<"params", "gate">>
        /\ last.request = NoRequest
        /\ DOMAIN last.headers = {}
        /\ last.got.kind = "return"
        /\ Fields(Now) = Fields(Was)

\* a call denied on a client whose remaining is below zero
C2_Witness ==
    /\ Reached
    /\ Was.remaining = Some(-1)
    /\ last.steps = <<"params", "gate">>
    /\ last.op = "strikes"

\* C3: after a call that got a response with four integer rate-limit headers,
\* whatever its body, each field is the integer of its own header; a call that
\* got no response, and the construction of an object, leave the four fields
\* of an existing client as they were.
C3_FieldsAreLastHeaders ==
    /\ (Reached /\ IntegerHeaders) =>
          /\ Now.limit = Some(PyInt(last.headers["x-api-ratelimit-limit"]))
          /\ Now.consumed = Some(PyInt(last.headers["x-api-ratelimit-consumed"]))
          /\ Now.remaining = Some(PyInt(last.headers["x-api-ratelimit-remaining"]))
          /\ Now.reset = Some(PyInt(last.headers["x-api-ratelimit-reset"]))
    /\ (last.op \in Ops \cup {"new"} /\ last.before # None /\ ~InSteps("observe")) =>
          Fields(Now) = Fields(Was)

\* a response with an error body overwrote remaining = 2 by remaining = 1
C3_Witness ==
    /\ Reached
    /\ IntegerHeaders
    /\ BodyStatus("error")
    /\ Was.remaining = Some(2)
    /\ Now.remaining = Some(1)

\* C4: of two concurrent callers that share the rate-limit state and each
\* start a request while the server's true remaining quota is 1, at most one
\* has its request sent.
C4_AtMostOneProceeds ==
    ~(\A t \in Threads : Proceeded(t) /\ loc[t].quota = 1)

\* C5: a public operation denied by the gate returns to its caller a
\* "Rate Limit Exceeded" outcome.
C5_DeniedReturnsRateLimitExceeded ==
    (Reached /\ ~Requested) =>
        /\ last.outcome.kind = "return"
        /\ last.outcome.v = "Rate Limit Exceeded"

\* C6: every object holds the one client of the process, so that once a
\* response reports remaining <= 0, the client of every object, of any kind,
\* has its gate closed.
C6_OneRateLimitState ==
    \A i \in 1..Len(objs) :
        /\ instances # None
        /\ objs[i].api = instances[1]
        /\ (Reached /\ IntegerHeaders
                /\ PyInt(last.headers["x-api-ratelimit-remaining"]) <= 0) =>
              /\ heap[objs[i].api].remaining # None
              /\ heap[objs[i].api].remaining[1] <= 0

\* a request through the stock observed remaining = 0 and the option's client
\* is closed
C6_Witness ==
    /\ Len(objs) = 2
    /\ objs[1].kind = "stock"
    /\ objs[2].kind = "option"
    /\ Reached
    /\ last.kind = "stock"
    /\ IntegerHeaders
    /\ PyInt(last.headers["x-api-ratelimit-remaining"]) = 0
    /\ ~GateOpen(heap[objs[2].api])

\* C7: a response whose body has s = no_data makes the operation return the
\* string "No Data": nothing is raised and no key other than s is read.
C7_NoDataIsReturned ==
    (Reached /\ BodyStatus("no_data")) =>
        /\ last.outcome.kind = "return"
        /\ last.outcome.t = "str"
        /\ last.outcome.v = "No Data"
        /\ last.reads = {"s"}

C7_Witness == Reached /\ BodyStatus("no_data") /\ last.op = "option_chain"

\* C8: a response whose body has s = error and an errmsg makes the operation
\* hand its caller exactly the text of errmsg.
C8_ErrorCarriesErrmsg ==
    (Reached /\ BodyStatus("error") /\ "errmsg" \in DOMAIN last.body[1].json) =>
        /\ last.outcome.kind = "return"
        /\ last.outcome.t = "str"
        /\ last.outcome.v = last.body[1].json["errmsg"]

C8_Witness ==
    /\ Reached
    /\ BodyStatus("error")
    /\ "errmsg" \in DOMAIN last.body[1].json
    /\ last.outcome.v = "bad symbol"

\* C9: a response body whose discriminator s is none of ok, no_data, error
\* makes the operation fail: it never gives a normal return value.
C9_UnknownStatusFails ==
    (/\ Reached
     /\ last.body # None
     /\ last.body[1].text = "json"
     /\ "s" \in DOMAIN last.body[1].json
     /\ last.body[1].json["s"] \notin {"ok", "no_data", "error"}) =>
        last.outcome.kind = "raise"

\* C10: an empty body, a body without the discriminator s, and s = error with
\* no errmsg each end the operation in an exception, never in a returned value.
C10_IncompleteBodyFails ==
    (/\ Reached
     /\ last.body # None
     /\ \/ last.body[1].text = "empty"
        \/ last.body[1].text = "json" /\ "s" \notin DOMAIN last.body[1].json
        \/ BodyStatus("error") /\ "errmsg" \notin DOMAIN last.body[1].json) =>
        last.outcome.kind = "raise"

\* s = error without errmsg: the KeyError of response_json['errmsg']
C10_Witness ==
    /\ Reached
    /\ BodyStatus("error")
    /\ "errmsg" \notin DOMAIN last.body[1].json
    /\ last.outcome.t = "KeyError"

\* the operation returned a normalized result: a table or a list
Normalized ==
    /\ last.outcome.kind = "return"
    /\ last.outcome.t \in {"DataFrame", "list"}

\* C11: an operation runs its normalizer, and returns a table or a list, only
\* when the discriminator of the response is ok.
C11_NormalizedOnlyFromOk ==
    (Reached /\ (InSteps("normalize") \/ Normalized)) => BodyStatus("ok")

\* an expirations list returned from an ok body
C11_Witness ==
    /\ Reached
    /\ BodyStatus("ok")
    /\ InSteps("normalize")
    /\ last.outcome.kind = "return"
    /\ last.outcome.t = "list"

\* round(x) of the number n / 10, n >= 0: to the nearest integer, a half to
\* the even one
RoundTenths(n) ==
    IF n % 10 > 5 \/ (n % 10 = 5 /\ (n \div 10) % 2 = 1) THEN (n \div 10) + 1
    ELSE n \div 10

\* the strike price n / 10000 times 1000 is not negative and has 8 digits at most
ValidStrike(n) == n >= 0 /\ RoundTenths(n) <= 99999999

\* C12: the option symbol of every Option constructed from a valid strike
\* price is underlying + YYMMDD + letter + round(strike * 1000) padded with
\* zeros to 8 digits, of length len(underlying) + 15; IBM, 2023-02-10, Call,
\* 140 gives IBM230210C00140000.
C12_SymbolUsesRoundedStrike ==
    \A i \in 1..Len(objs) :
        (objs[i].kind = "option" /\ ValidStrike(objs[i].strike_price)) =>
            /\ objs[i].option_symbol =
                    objs[i].underlying.s \o Yymmdd(objs[i].expiry_date)
                        \o objs[i].option_type
                        \o ZeroPad(NatToStr(RoundTenths(objs[i].strike_price)), 8)
            /\ Len(objs[i].option_symbol) = Len(objs[i].underlying.s) + 15
            /\ (/\ objs[i].underlying.s = "IBM"
                /\ objs[i].strike_price = 1400000
                /\ objs[i].option_type = "C"
                /\ objs[i].expiry_date = <<"2", "0", "2", "3", "-", "0", "2", "-", "1", "0">>)
                  => objs[i].option_symbol = "IBM230210C00140000"

\* C13: the construction of an Option whose strike price times 1000 is
\* negative or needs more than 8 digits fails, and the strike part of every
\* option symbol is 8 digits long.
C13_InvalidStrikeFails ==
    /\ (last.op = "new" /\ last.kind = "option" /\ ~ValidStrike(last.args.strike)) =>
          last.outcome.kind = "raise"
    /\ \A i \in 1..Len(objs) :
          objs[i].kind = "option" =>
              /\ ValidStrike(objs[i].strike_price)
              /\ Len(objs[i].option_symbol) = Len(objs[i].underlying.s) + 15

\* C14: constructing an Option maps the option type Call to the letter C and
\* Put to the letter P; with any other option type the construction raises
\* and leaves no Option object, hence no option symbol.
C14_OptionTypeLetter ==
    /\ (last.op = "new" /\ last.kind = "option") =>
          /\ last.args.option_type \notin {"Call", "call", "CALL", "Put", "put", "PUT"} =>
                /\ last.outcome.kind = "raise"
                /\ Len(objs) = last.nobjs
          /\ last.outcome.kind = "return" =>
                /\ Len(objs) = last.nobjs + 1
                /\ objs[Len(objs)].option_type =
                      IF last.args.option_type \in {"Call", "call", "CALL"} THEN "C" ELSE "P"
    /\ \A i \in 1..Len(objs) :
          objs[i].kind = "option" => objs[i].option_type \in {"C", "P"}

\* an option type that is neither: the construction raised AttributeError
C14_Witness ==
    /\ last.op = "new"
    /\ last.kind = "option"
    /\ last.args.option_type = "straddle"
    /\ last.outcome.kind = "raise"
    /\ last.outcome.t = "AttributeError"
    /\ Len(objs) = 1

\* the params dict of the last call has the key
HasKey(key) == \E i \in 1..Len(last.params) : last.params[i][1] = key

\* the last call built its params dict and went on to get_data_from_url
ParamsBuilt(op) == last.op = op /\ Len(last.steps) > 1

\* filters of get_option_chain whose default is None, with their keys
ChainFilters ==
    [month |-> "month", year |-> "year", dte |-> "dte", delta |-> "delta",
     option_type |-> "side", strike_price |-> "strike",
     strike_price_count |-> "strikeLimit", minimum_oi |-> "minOpenInterest",
     minimum_volume |-> "minVolume", minimum_liquidity |-> "minLiquidity",
     max_bid_ask_spread |-> "maxBidAskSpread",
     max_bid_ask_spread_pct |-> "maxBidAskSpreadPct"]

\* C15: the query string has a filter's key if and only if the caller
\* supplied a value for it: a filter left at None is never emitted and a
\* supplied value always is, a supplied 0 (dte=0) and a supplied False
\* (adjustSplits=False) included.
C15_FilterEmittedIffSupplied ==
    /\ ParamsBuilt("option_chain") =>
          \A f \in DOMAIN ChainFilters :
              HasKey(ChainFilters[f]) <=> last.args[f] # PyNone
    /\ (ParamsBuilt("candles") /\ last.kind = "stock") =>
          /\ HasKey("countback") <=> last.args.num_of_periods # PyNone
          /\ HasKey("exchange") <=> last.args.exchange # PyNone
          /\ last.args.adjustSplits = PyB(FALSE) => HasKey("adjustsplits")

\* the JSON object of the last response
Json == last.body[1].json

\* the symbol of the object the last call was made on
RequestSymbol == IF last.kind = "stock" THEN "AAPL" ELSE "SPX"

\* C16: an ok candle body with n timestamps normalizes to n rows with the
\* columns symbol, date, close, high, low, open, volume in that order, row i
\* holding the request symbol and the i-th elements of t, c, h, l, o, v,
\* whatever the order of the source fields; no other source field appears.
C16_CandleTable ==
    (Reached /\ last.op = "candles" /\ BodyStatus("ok")) =>
        /\ last.outcome.kind = "return"
        /\ last.outcome.t = "DataFrame"
        /\ last.outcome.data.columns =
              <<"symbol", "date", "close", "high", "low", "open", "volume">>
        /\ Len(last.outcome.data.rows) = Len(Json["t"])
        /\ \A i \in 1..Len(Json["t"]) :
              last.outcome.data.rows[i] =
                  << <<RequestSymbol>>, Json["t"][i], Json["c"][i], Json["h"][i],
                     Json["l"][i], Json["o"][i], Json["v"][i] >>

\* a body of three candles with a field x, its fields in another order
C16_Witness ==
    /\ Reached
    /\ last.op = "candles"
    /\ BodyStatus("ok")
    /\ "x" \in DOMAIN Json
    /\ last.body[1].order[1] = "v"
    /\ Len(last.outcome.data.rows) = 3

\* the fixed schema of an option chain: each column with its source field
ChainSchema ==
    << <<"updated", "updated">>, <<"option_symbol", "optionSymbol">>,
       <<"underlying", "underlying">>, <<"expiry_date", "expiration">>,
       <<"option_type", "side">>, <<"strike_price", "strike">>,
       <<"first_traded_date", "firstTraded">>, <<"dte", "dte">>, <<"bid", "bid">>,
       <<"bid_size", "bidSize">>, <<"mid", "mid">>, <<"ask", "ask">>,
       <<"ask_size", "askSize">>, <<"last_price", "last">>,
       <<"open_interest", "openInterest">>, <<"volume", "volume">>,
       <<"in_the_money", "inTheMoney">>, <<"intrinsic_value", "intrinsicValue">>,
       <<"extrnisic_value", "extrinsicValue">>,
       <<"underlying_price", "underlyingPrice">>, <<"iv", "iv">>,
       <<"delta", "delta">>, <<"gamma", "gamma">>, <<"theta", "theta">>,
       <<"vega", "vega">>, <<"rho", "rho">> >>

\* C17: an ok option-chain body normalizes to one row per contract with
\* exactly the 26 columns of the fixed schema in the fixed order (with the
\* spelling extrnisic_value); the status discriminator is no column,
\* unexpected source fields are dropped, and a schema field the source lacks
\* is a column of absent values.
C17_ChainTable ==
    (Reached /\ last.op = "option_chain" /\ BodyStatus("ok")) =>
        /\ last.outcome.kind = "return"
        /\ last.outcome.t = "DataFrame"
        /\ Len(ChainSchema) = 26
        /\ last.outcome.data.columns = [c \in 1..26 |-> ChainSchema[c][1]]
        /\ Len(last.outcome.data.rows) = Len(Json["optionSymbol"])
        /\ \A i \in 1..Len(Json["optionSymbol"]), c \in 1..26 :
              last.outcome.data.rows[i][c] =
                  IF ChainSchema[c][2] \in DOMAIN Json THEN Json[ChainSchema[c][2]][i]
                  ELSE <<>>
        /\ \A c \in 1..Len(last.outcome.data.columns) :
              last.outcome.data.columns[c] \notin {"s", "status", "x"}

\* a chain of two contracts with a field x and without most schema fields
C17_Witness ==
    /\ Reached
    /\ last.op = "option_chain"
    /\ BodyStatus("ok")
    /\ "x" \in DOMAIN Json
    /\ "rho" \notin DOMAIN Json
    /\ Len(last.outcome.data.rows) = 2
    /\ last.outcome.data.columns[19] = "extrnisic_value"
    /\ last.outcome.data.rows[2][19] = <<2>>
    /\ last.outcome.data.rows[2][26] = <<>>

\* C18: an ok market-status body normalizes to the element-wise zip of its
\* date and status arrays, one row per date; when the two arrays differ in
\* length the normalization fails, and never returns a table with fewer
\* rows than the longer array.
C18_MarketStatusZip ==
    (Reached /\ last.op = "market_status" /\ BodyStatus("ok")) =>
        IF Len(Json["date"]) # Len(Json["status"])
        THEN last.outcome.kind = "raise"
        ELSE /\ last.outcome.kind = "return"
             /\ last.outcome.data.columns = <<"date", "status">>
             /\ Len(last.outcome.data.rows) = Len(Json["date"])
             /\ \A i \in 1..Len(Json["date"]) :
                   last.outcome.data.rows[i] = <<Json["date"][i], Json["status"][i]>>

\* the last call returned a table with the column
HasColumn(column) ==
    \E c \in 1..Len(last.outcome.data.columns) : last.outcome.data.columns[c] = column

\* C19: a normalized quote has a column of the quote schema if and only if
\* its source field is present in the response: a column is dropped only
\* when it is absent in every row, and a field with a value in at least one
\* row is kept.
C19_QuoteColumnIffPresent ==
    (Reached /\ last.op = "quote" /\ BodyStatus("ok")
        /\ last.outcome.kind = "return" /\ last.outcome.t = "DataFrame") =>
        \A c \in 1..Len(quote_columns) :
            HasColumn(quote_columns[c]) <=>
                /\ quote_sources[c] \in DOMAIN Json
                /\ \E i \in 1..Len(Json[quote_sources[c]]) : Json[quote_sources[c]][i] # <<>>

\* the country argument of the last construction
Supplied == last.args.country

\* C20: a Stock, an Index or an Option just constructed has the country the
\* caller supplied, or "US" when the caller supplied none; the country of an
\* object is never None, so no request carries a None country parameter.
C20_CountryDefaultsToUS ==
    /\ (last.op = "new" /\ last.outcome.kind = "return") =>
          objs[Len(objs)].country = IF Supplied = PyNone THEN PyS("US") ELSE Supplied
    /\ \A i \in 1..Len(objs) : objs[i].country # PyNone
    /\ \A i \in 1..Len(last.params) :
          last.params[i][1] = "country" => last.params[i][2] # PyNone

\* a value as the API spells it in a query string: a bool as true or false
ApiStr(val) == IF val.t = "bool" THEN (IF val.n = 1 THEN "true" ELSE "false") ELSE PyStr(val)

RECURSIVE ApiQuery(_)
\* the query string with every value spelled as the API spells it
ApiQuery(params) ==
    IF params = <<>> THEN ""
    ELSE params[1][1] \o "=" \o ApiStr(params[1][2])
            \o (IF Len(params) > 1 THEN "&" ELSE "") \o ApiQuery(Tail(params))

\* C21: every boolean query parameter that is emitted (extended,
\* adjustsplits, adjustdividends, 52week, weekly, monthly, quarterly) is
\* written in the final URL as the literal true or false, in no other
\* spelling and not as a number.
C21_BooleansAsTrueFalse ==
    (Reached /\ Requested /\ last.params # <<>>) =>
        /\ urlencode(last.params) = ApiQuery(last.params)
        /\ \A i \in 1..Len(last.params) :
              last.params[i][2].t = "bool" =>
                  PyStr(last.params[i][2]) \in {"true", "false"}

\* C22: once a client holds remaining = 0 the gate is absorbing: every later
\* call through get_data_from_url is denied, no response is observed, and
\* limit, consumed, remaining and reset keep their values in every step.
C22_GateAbsorbing ==
    [][\A j \in 1..Len(heap) :
          heap[j].remaining = Some(0) =>
              /\ Len(heap') >= j
              /\ heap'[j] = heap[j]
              /\ (last'.op \in Ops /\ last'.api = j) =>
                    /\ last'.request = NoRequest
                    /\ DOMAIN last'.headers = {}
                    /\ last'.body = None
                    /\ \A i \in 1..Len(last'.steps) :
                          last'.steps[i] \notin {"requests.get", "observe"}]_vars

\* a quote denied on a client that held remaining = 0 and reset = 7, and
\* holds them still
C22_Witness ==
    /\ Reached
    /\ last.op = "quote"
    /\ last.steps = <<"params", "gate">>
    /\ Was.remaining = Some(0)
    /\ Was.reset = Some(7)
    /\ Fields(Now) = Fields(Was)

\* C23: in every call the final request URL (base URL plus encoded query
\* parameters) is built before the rate-limit gate is checked: no
\* URL-building step follows the gate check.
C23_UrlBuiltBeforeGate ==
    Reached =>
        \A i, j \in 1..Len(last.steps) :
            (last.steps[i] = "gate" /\ last.steps[j] = "build_final_url") => j < i

\* the number of times the last call handed a request to requests.get
Gets == Cardinality({i \in 1..Len(last.steps) : last.steps[i] = "requests.get"})

\* the GET of the last call failed: requests.get raised and no response exists
GetFailed == Reached /\ Requested /\ ~InSteps("observe")

\* C24: when the transport GET fails the operation ends by raising the
\* transport's own exception to its caller, the four rate-limit fields keep
\* the values they had before the call, and no second GET is attempted.
C24_TransportFailureSurfaces ==
    GetFailed =>
        /\ last.outcome.kind = "raise"
        /\ last.outcome.t \in {"ConnectionError", "MissingSchema"}
        /\ last.outcome = last.got
        /\ Fields(Now) = Fields(Was)
        /\ Gets = 1
        /\ last.steps[Len(last.steps)] = "requests.get"
        /\ last.body = None

\* a connection error on a client that held remaining = 1
C24_Witness ==
    /\ GetFailed
    /\ last.outcome.t = "ConnectionError"
    /\ Was.remaining = Some(1)
    /\ Now.remaining = Some(1)

\* the four fields of the client are the four headers of the last response
FromLastResponse ==
    /\ IntegerHeaders
    /\ Fields(Now) = <<Some(PyInt(last.headers["x-api-ratelimit-limit"])),
                       Some(PyInt(last.headers["x-api-ratelimit-consumed"])),
                       Some(PyInt(last.headers["x-api-ratelimit-remaining"])),
                       Some(PyInt(last.headers["x-api-ratelimit-reset"]))>>

\* C25: the four rate-limit fields are updated all-or-nothing: in every
\* state, also after a response that lacks one of the four headers or
\* carries one that is no integer, either all four are unset or all four
\* hold the values of one and the same response.
C25_AllOrNothing ==
    /\ \A j \in 1..Len(heap) :
          \/ \A f \in {"limit", "consumed", "remaining", "reset"} : heap[j][f] = None
          \/ \A f \in {"limit", "consumed", "remaining", "reset"} : heap[j][f] # None
    /\ (Reached /\ InSteps("observe")) =>
          (FromLastResponse \/ Fields(Now) = Fields(Was))

\* C26: under any interleaving of concurrent first-time constructions of
\* Symbol objects at most one MarketDataAPI instance, and so one rate-limit
\* state, is ever created, and every constructor call returns that instance.
C26_OneInstanceUnderRace ==
    /\ Len(heap) <= 1
    /\ \A i \in 1..Len(objs) : objs[i].api = 1

\* the params dict of the last call holds the value under the key
HasPair(key, val) ==
    \E i \in 1..Len(last.params) : last.params[i][1] = key /\ last.params[i][2] = val

\* the date filters of an operation with their query keys
DateFilters(op) ==
    CASE op = "market_status" -> [ason_date |-> "date", from_date |-> "from", to_date |-> "to"]
      [] op = "candles" -> [from_date |-> "from", to_date |-> "to"]
      [] op = "option_chain" -> [ason_date |-> "date", expiration_date |-> "expiration",
                                 from_date |-> "from", to_date |-> "to"]
      [] op = "expirations" -> [ason_date |-> "date"]
      [] op = "strikes" -> [expiration_date |-> "expiration", ason_date |-> "date"]

\* C27: a date filter supplied as a YYYY-MM-DD string is emitted unchanged
\* under its query key, whether or not another date filter is supplied:
\* get_market_status with a string from_date and no ason_date, and
\* Index.get_candles with a string to_date and no from_date, send the string
\* and do not fail.
C27_DateStringsEmitted ==
    (last.op \in Ops \ {"quote"}) =>
        \A f \in DOMAIN DateFilters(last.op) :
            (last.args[f].t = "str" /\ last.args[f].s # "") =>
                /\ last.steps # <<"params">>
                /\ HasPair(DateFilters(last.op)[f], last.args[f])

\* C28: in every state of a Stock or Index object, also after set_symbol,
\* underlying equals symbol, so that its option-chain, expirations and
\* strikes requests name the ticker its quote request names; the underlying
\* of an Option is the underlying ticker given at construction.
C28_UnderlyingIsSymbol ==
    \A i \in 1..Len(objs) :
        /\ objs[i].kind \in {"stock", "index"} =>
              /\ objs[i].underlying = objs[i].symbol
              /\ quote_prep(objs[i], QuoteDefaults).url.text =
                    PyStr(objs[i].quote_url) \o PyStr(objs[i].underlying) \o Suffix
              /\ option_chain_prep(objs[i], OptionChainDefaults).url.text =
                    api_urls.option_chain \o PyStr(objs[i].symbol) \o Suffix
        /\ objs[i].kind = "option" => objs[i].underlying \in {PyS("IBM"), PyS("F")}

\* the body is a JSON object with the discriminator no_data or error
NotOkJson(b) ==
    /\ b.text = "json"
    /\ "s" \in DOMAIN b.json
    /\ b.json["s"] \in {"no_data", "error"}

\* C29: the value an operation returns for a response that is not ok
\* determines the response's discriminator: no response with another
\* discriminator (no_data against error with any errmsg, the texts "No Data"
\* and "Rate Limit Exceeded" included) makes the operation return that value.
C29_ValueDeterminesStatus ==
    (Reached /\ last.body # None /\ NotOkJson(last.body[1])
        /\ last.outcome.kind = "return") =>
        \A b \in NotOkBodies :
            (NotOkJson(b) /\ b.json["s"] # Json["s"]) =>
                process_not_ok_response(b.json).ret # last.outcome

\* the token each object was constructed with, in the order of objs
Given == last.args

\* C30: every request sent for a Symbol object carries the header
\* Authorization: token T, T being the auth token given when that object
\* was constructed, for any sequence of constructions with different tokens.
C30_RequestCarriesOwnToken ==
    (last.op = "quote" /\ last.request # NoRequest) =>
        last.request.auth = "token " \o Given[last.nobjs].s

====
